---- MODULE Spec2Model ----
(***************************************************************************)
(* Model of booking_hotel.py: the Room entity and its three tiers, the     *)
(* Admin registry, and the JSON persistence of ModernHotelBookingApp.      *)
(*                                                                         *)
(* Representation choices:                                                 *)
(*  - a Room object is a record; the registry Admin.rooms is a sequence.   *)
(*  - datetime values are integers counting clock ticks, TicksPerSecond    *)
(*    ticks to the second; None is NoTime.  strftime('%Y-%m-%d %H:%M:%S')  *)
(*    keeps the whole seconds only, strptime yields a tick count with a    *)
(*    zero sub-second part.                                                *)
(*  - money: nightly rates are whole currency units; the value returned by *)
(*    calculate_price is held in hundredths of a unit, so that the 10% and *)
(*    15% service charges are exact.                                       *)
(*  - a JSON document is a sequence of records; a record that lacks a key  *)
(*    simply has no such field.                                            *)
(***************************************************************************)
EXTENDS Integers, Sequences, FiniteSets, TLC

\* ---------------------------------------------------------------- bounds
MaxRooms == 2
MaxNights == 2
MaxTime == 6
PriceMaxRate == 4
PriceMaxNights == 3

\* ------------------------------------------------------- program constants
TicksPerSecond == 2
NoTime == -1
amenities_fee == 500000
DeluxeServicePercent == 10
SuiteServicePercent == 15

RoomNumbers == {"101", "102"}
Prices == {100000}
Guests == {"Alice"}
ExtraAmenities == {<<>>, <<"Sea View">>}
RoomTypeNames == {"Standard", "Deluxe", "Suite", "Penthouse"}

VARIABLES
    rooms,      \* Admin.rooms of the running (or last exited) process
    file,       \* content of rooms.json
    running,    \* TRUE while the application window is open
    now,        \* the wall clock, in ticks; it advances between any two calls
    last        \* the last call made: its name, arguments, result and the registry before it

vars == <<rooms, file, running, now, last>>

\* ------------------------------------------------------------ Room tiers
StandardSeed == <<"TV", "AC", "WiFi">>
DeluxeSeed == <<"TV", "AC", "WiFi", "Mini Bar", "City View">>
SuiteSeed == <<"TV", "AC", "WiFi", "Mini Bar", "City View", "Living Room", "Kitchen", "Jacuzzi">>

\* Room.__init__: the base constructor, with its keyword defaults applied by the caller
Room(cls, room_number, price, amenities, max_occupancy, is_available, checkin_time, nights, guest_name) ==
    [cls |-> cls,
     room_number |-> room_number,
     price |-> price,
     amenities |-> amenities,
     max_occupancy |-> max_occupancy,
     is_available |-> is_available,
     checkin_time |-> IF checkin_time # NoTime THEN checkin_time * TicksPerSecond ELSE NoTime,
     nights |-> nights,
     guest_name |-> guest_name]

\* the constructors with the tier's list used only when no amenities were passed
Construct_ExtrasReplaceSeed(cls, room_number, price, amenities, max_occupancy, is_available, checkin_time, nights, guest_name) ==
    LET base == Room(cls, room_number, price, amenities, max_occupancy,
                     is_available, checkin_time, nights, guest_name)
        seeded(seed) == IF amenities = <<>> THEN seed ELSE amenities
    IN  CASE cls = "StandardRoom" ->
               [base EXCEPT !.amenities = seeded(<<"TV", "AC", "WiFi">>), !.max_occupancy = 2]
          [] cls = "DeluxeRoom" ->
               [base EXCEPT !.amenities = seeded(<<"TV", "AC", "WiFi", "Mini Bar", "City View">>),
                            !.max_occupancy = 3]
          [] cls = "SuiteRoom" ->
               [base EXCEPT !.amenities = seeded(<<"TV", "AC", "WiFi", "Mini Bar", "City View",
                                                   "Living Room", "Kitchen", "Jacuzzi">>),
                            !.max_occupancy = 4]
          [] OTHER -> base

\* StandardRoom.__init__ / DeluxeRoom.__init__ / SuiteRoom.__init__ / Room.__init__,
\* selected by the class: the subclass extends whatever list the base constructor
\* stored with its seed list and overwrites max_occupancy.
Construct(cls, room_number, price, amenities, max_occupancy, is_available, checkin_time, nights, guest_name) ==
    LET base == Room(cls, room_number, price, amenities, max_occupancy,
                     is_available, checkin_time, nights, guest_name)
    IN  CASE cls = "StandardRoom" ->
               [base EXCEPT !.amenities = @ \o StandardSeed, !.max_occupancy = 2]
          [] cls = "DeluxeRoom" ->
               [base EXCEPT !.amenities = @ \o DeluxeSeed, !.max_occupancy = 3]
          [] cls = "SuiteRoom" ->
               [base EXCEPT !.amenities = @ \o SuiteSeed, !.max_occupancy = 4]
          [] OTHER -> base

\* Room.book_room: the new state of the room and the value returned
Room_book_room(room, nights, guest_name, t) ==
    IF room.is_available
    THEN [room |-> [room EXCEPT !.is_available = FALSE,
                                !.checkin_time = t,
                                !.nights = nights,
                                !.guest_name = guest_name],
          ret |-> TRUE]
    ELSE [room |-> room, ret |-> FALSE]

\* SuiteRoom.arrange_vip_welcome
arrange_vip_welcome(room) ==
    [room EXCEPT !.amenities = Append(Append(@, "Welcome Champagne"), "Fruit Basket")]

\* book_room with the VIP welcome arranged for every class of room
book_room_WelcomeForAll(room, nights, guest_name, t) ==
    LET r == Room_book_room(room, nights, guest_name, t)
    IN  IF r.ret THEN [room |-> arrange_vip_welcome(r.room), ret |-> TRUE]
                 ELSE [room |-> r.room, ret |-> FALSE]

\* book_room with the VIP welcome arranged whether or not the booking succeeded
book_room_WelcomeAlways(room, nights, guest_name, t) ==
    LET r == Room_book_room(room, nights, guest_name, t)
    IN  IF room.cls = "SuiteRoom"
        THEN [room |-> arrange_vip_welcome(r.room), ret |-> r.ret]
        ELSE r

\* SuiteRoom.book_room overrides Room.book_room; the other classes inherit it
book_room(room, nights, guest_name, t) ==
    LET r == Room_book_room(room, nights, guest_name, t)
    IN  IF room.cls = "SuiteRoom"
        THEN IF r.ret THEN [room |-> arrange_vip_welcome(r.room), ret |-> TRUE]
                      ELSE [room |-> r.room, ret |-> FALSE]
        ELSE r

\* release_room that also takes the welcome gifts out of the amenity list
release_room_DropsWelcome(room) ==
    LET stays(a) == a \notin {"Welcome Champagne", "Fruit Basket"}
    IN  [room EXCEPT !.is_available = TRUE,
                     !.checkin_time = NoTime,
                     !.nights = 0,
                     !.guest_name = "",
                     !.amenities = SelectSeq(@, stays)]

\* release_room that forgets to clear the guest name
release_room_KeepsGuest(room) ==
    [room EXCEPT !.is_available = TRUE,
                 !.checkin_time = NoTime,
                 !.nights = 0]

\* Room.release_room
release_room(room) ==
    [room EXCEPT !.is_available = TRUE,
                 !.checkin_time = NoTime,
                 !.nights = 0,
                 !.guest_name = ""]

\* the base price with the night of arrival left out
Room_calculate_price_OffByOne(room) == room.price * (room.nights - 1)

\* Room.calculate_price, in whole currency units
Room_calculate_price(room) == room.price * room.nights

\* calculate_price with the Suite amenities fee charged per night
calculate_price_FeePerNight(room) ==
    LET base_price == room.price * room.nights
    IN  CASE room.cls = "DeluxeRoom" ->
               base_price * 100 + base_price * DeluxeServicePercent
          [] room.cls = "SuiteRoom" ->
               base_price * 100 + base_price * SuiteServicePercent
                   + amenities_fee * room.nights * 100
          [] OTHER -> base_price * 100

\* calculate_price where the Deluxe class returns the service charge alone
calculate_price_ChargeOnly(room) ==
    LET base_price == room.price * room.nights
    IN  CASE room.cls = "DeluxeRoom" ->
               base_price * DeluxeServicePercent
          [] room.cls = "SuiteRoom" ->
               base_price * 100 + base_price * SuiteServicePercent + amenities_fee * 100
          [] OTHER -> base_price * 100

\* calculate_price of the room's class, in hundredths of a currency unit
calculate_price(room) ==
    LET base_price == Room_calculate_price(room)
    IN  CASE room.cls = "DeluxeRoom" ->
               base_price * 100 + base_price * DeluxeServicePercent
          [] room.cls = "SuiteRoom" ->
               base_price * 100 + base_price * SuiteServicePercent + amenities_fee * 100
          [] OTHER -> base_price * 100

\* ---------------------------------------------------------- serialization
\* Room.to_dict
Room_to_dict(room) ==
    [room_number |-> room.room_number,
     room_type |-> room.cls,
     price |-> room.price,
     amenities |-> room.amenities,
     max_occupancy |-> room.max_occupancy,
     is_available |-> room.is_available,
     checkin_time |-> IF room.checkin_time # NoTime
                      THEN room.checkin_time \div TicksPerSecond ELSE NoTime,
     nights |-> room.nights,
     guest_name |-> room.guest_name]

RequiredKeys == {"room_type", "room_number", "price", "is_available", "checkin_time", "nights"}

\* Room.from_dict: data[k] raises KeyError on a missing key, data.get(k, d) does not;
\* guest_name is not handed to the constructor, which then takes its default.
Room_from_dict(data) ==
    IF ~(RequiredKeys \subseteq DOMAIN data)
    THEN [err |-> "KeyError"]
    ELSE LET room_class == IF data.room_type \in {"StandardRoom", "DeluxeRoom", "SuiteRoom"}
                           THEN data.room_type ELSE "Room"
         IN  [err |-> "",
              room |-> Construct(room_class,
                                 data.room_number,
                                 data.price,
                                 IF "amenities" \in DOMAIN data THEN data.amenities ELSE <<>>,
                                 IF "max_occupancy" \in DOMAIN data THEN data.max_occupancy ELSE 2,
                                 data.is_available,
                                 data.checkin_time,
                                 data.nights,
                                 "")]

\* Admin.to_dict
Admin_to_dict(rs) == [i \in 1..Len(rs) |-> Room_to_dict(rs[i])]

\* Admin.from_dict: the list comprehension stops at the first record that raises
Admin_from_dict(data) ==
    IF \E i \in 1..Len(data) : Room_from_dict(data[i]).err # ""
    THEN [err |-> "KeyError", rooms |-> <<>>]
    ELSE [err |-> "", rooms |-> [i \in 1..Len(data) |-> Room_from_dict(data[i]).room]]

\* ModernHotelBookingApp.load_rooms_from_json: only FileNotFoundError and
\* json.JSONDecodeError are caught; anything else leaves the constructor.
load_rooms_from_json(f) ==
    CASE f.kind = "absent" -> [err |-> "", rooms |-> <<>>]
      [] f.kind = "text" -> [err |-> "", rooms |-> <<>>]
      [] f.kind = "number" -> [err |-> "TypeError", rooms |-> <<>>]
      [] OTHER -> Admin_from_dict(f.data)

\* -------------------------------------------------------------- registry
\* the class a tier name selects in Admin.add_room ("" when the name is unknown)
room_classes(room_type) ==
    CASE room_type = "Standard" -> "StandardRoom"
      [] room_type = "Deluxe" -> "DeluxeRoom"
      [] room_type = "Suite" -> "SuiteRoom"
      [] OTHER -> ""

\* Admin.add_room(room_type, room_number, price, amenities=extras)
Admin_add_room(rs, room_type, room_number, price, extras) ==
    LET room_class == room_classes(room_type)
    IN  IF room_class # ""
        THEN [rooms |-> Append(rs, Construct(room_class, room_number, price, extras,
                                             2, TRUE, NoTime, 0, "")),
              ret |-> TRUE]
        ELSE [rooms |-> rs, ret |-> FALSE]

\* remove_room that drops only the first room carrying the number
Admin_remove_room_FirstOnly(rs, room_number) ==
    LET hits == {i \in 1..Len(rs) : rs[i].room_number = room_number}
    IN  IF hits = {} THEN rs
        ELSE LET first == CHOOSE i \in hits : \A j \in hits : i <= j
             IN  [k \in 1..(Len(rs) - 1) |-> IF k < first THEN rs[k] ELSE rs[k + 1]]

\* Admin.remove_room
Admin_remove_room(rs, room_number) ==
    LET keep(room) == room.room_number # room_number
    IN  SelectSeq(rs, keep)

\* int(x) for the values x that occur as room numbers or form texts: the
\* decimal value of a numeral or of a Python integer, ok = FALSE where int()
\* raises ValueError.  "int 101" stands for the Python integer 101, which, as
\* in Python, is unequal to every str.
PyInt(x) ==
    CASE x \in {"101", "0101", "int 101"} -> [ok |-> TRUE, val |-> 101]
      [] x \in {"102", "int 102"} -> [ok |-> TRUE, val |-> 102]
      [] x = "2" -> [ok |-> TRUE, val |-> 2]
      [] x = "1" -> [ok |-> TRUE, val |-> 1]
      [] x = "0" -> [ok |-> TRUE, val |-> 0]
      [] x = "-1" -> [ok |-> TRUE, val |-> 0 - 1]
      [] OTHER -> [ok |-> FALSE, val |-> 0]

RECURSIVE get_room_by_number_from(_, _, _)
\* the loop of Admin.get_room_by_number from the i-th room on: both int() calls
\* are made for every room the scan reaches
get_room_by_number_from(rs, room_number, i) ==
    IF i > Len(rs) THEN [kind |-> "none", idx |-> 0]
    ELSE IF ~PyInt(rs[i].room_number).ok \/ ~PyInt(room_number).ok
         THEN [kind |-> "ValueError", idx |-> 0]
         ELSE IF PyInt(rs[i].room_number).val = PyInt(room_number).val
              THEN [kind |-> "found", idx |-> i]
              ELSE get_room_by_number_from(rs, room_number, i + 1)

\* Admin.get_room_by_number: the index of the room returned, None, or the exception
get_room_by_number(rs, room_number) == get_room_by_number_from(rs, room_number, 1)

RECURSIVE SumSeq(_)
\* sum([...]) over a list of numbers
SumSeq(s) == IF s = <<>> THEN 0 ELSE Head(s) + SumSeq(Tail(s))

\* get_booking_statistics with the revenue taken from calculate_price
get_booking_statistics_Billed(rs) ==
    LET occupied(room) == ~room.is_available
        occ == SelectSeq(rs, occupied)
        total_rooms == Len(rs)
        occupied_rooms == Len(occ)
        total_revenue == SumSeq([i \in 1..Len(occ) |-> calculate_price(occ[i]) \div 100])
    IN  [total_rooms |-> total_rooms,
         occupied_rooms |-> occupied_rooms,
         available_rooms |-> total_rooms - occupied_rooms,
         occupancy_rate |-> IF total_rooms > 0
                            THEN [num |-> occupied_rooms * 100, den |-> total_rooms]
                            ELSE [num |-> 0, den |-> 1],
         total_revenue |-> total_revenue]

\* Admin.get_booking_statistics; occupancy_rate is the quotient num/den
get_booking_statistics(rs) ==
    LET occupied(room) == ~room.is_available
        occ == SelectSeq(rs, occupied)
        total_rooms == Len(rs)
        occupied_rooms == Len(occ)
        total_revenue == SumSeq([i \in 1..Len(occ) |-> occ[i].price * occ[i].nights])
    IN  [total_rooms |-> total_rooms,
         occupied_rooms |-> occupied_rooms,
         available_rooms |-> total_rooms - occupied_rooms,
         occupancy_rate |-> IF total_rooms > 0
                            THEN [num |-> occupied_rooms * 100, den |-> total_rooms]
                            ELSE [num |-> 0, den |-> 1],
         total_revenue |-> total_revenue]

\* ---------------------------------------------------------------- actions
Init ==
    /\ rooms = <<>>
    /\ file = [kind |-> "absent"]
    /\ running = TRUE
    /\ now = 1
    /\ last = [op |-> "load", err |-> "", pre |-> <<>>, src |-> "absent"]

\* time passes: every call happens at a later clock reading than the one before
Tick ==
    /\ now < MaxTime
    /\ now' = now + 1

\* the admin adds a room
AddRoom ==
    /\ Tick
    /\ running
    /\ Len(rooms) < MaxRooms
    /\ \E room_type \in RoomTypeNames, room_number \in RoomNumbers,
          price \in Prices, extras \in ExtraAmenities :
          LET r == Admin_add_room(rooms, room_type, room_number, price, extras)
          IN  /\ rooms' = r.rooms
              /\ last' = [op |-> "add_room", ret |-> r.ret, pre |-> rooms,
                          room_type |-> room_type, room_number |-> room_number,
                          price |-> price, extras |-> extras]
    /\ UNCHANGED <<file, running>>

\* room.book_room(nights, guest_name) on the i-th room, at clock reading now
BookRoom ==
    /\ Tick
    /\ running
    /\ \E i \in 1..Len(rooms), nights \in 1..MaxNights, guest_name \in Guests :
          LET r == book_room(rooms[i], nights, guest_name, now)
          IN  /\ rooms' = [rooms EXCEPT ![i] = r.room]
              /\ last' = [op |-> "book_room", ret |-> r.ret, pre |-> rooms, idx |-> i,
                          nights |-> nights, guest_name |-> guest_name, t |-> now]
    /\ UNCHANGED <<file, running>>

\* room.release_room() on the i-th room
ReleaseRoom ==
    /\ Tick
    /\ running
    /\ \E i \in 1..Len(rooms) :
          /\ rooms' = [rooms EXCEPT ![i] = release_room(rooms[i])]
          /\ last' = [op |-> "release_room", pre |-> rooms, idx |-> i]
    /\ UNCHANGED <<file, running>>

\* admin.remove_room(room_number)
RemoveRoom ==
    /\ Tick
    /\ running
    /\ \E room_number \in RoomNumbers :
          /\ rooms' = Admin_remove_room(rooms, room_number)
          /\ last' = [op |-> "remove_room", pre |-> rooms, room_number |-> room_number]
    /\ UNCHANGED <<file, running>>

\* admin.get_booking_statistics()
Statistics ==
    /\ Tick
    /\ running
    /\ last' = [op |-> "get_booking_statistics", pre |-> rooms,
                ret |-> get_booking_statistics(rooms)]
    /\ UNCHANGED <<rooms, file, running>>

\* ModernHotelBookingApp.on_close: save_rooms_to_json, then the window is destroyed
on_close ==
    /\ Tick
    /\ running
    /\ file' = [kind |-> "rooms", data |-> Admin_to_dict(rooms)]
    /\ running' = FALSE
    /\ last' = [op |-> "on_close", pre |-> rooms]
    /\ UNCHANGED <<rooms>>

\* rooms.json is deleted or damaged while the application is not running
DamageFile ==
    /\ Tick
    /\ ~running
    /\ file.kind = "rooms"
    /\ \/ file' = [kind |-> "absent"]
       \/ file' = [kind |-> "text"]
       \/ file' = [kind |-> "number"]
       \/ \E i \in 1..Len(file.data), k \in {"price", "amenities"} :
             file' = [file EXCEPT !.data[i] = [f \in (DOMAIN file.data[i]) \ {k} |-> file.data[i][f]]]
    /\ last' = [op |-> "damage", pre |-> rooms]
    /\ UNCHANGED <<rooms, running>>

\* ModernHotelBookingApp.__init__: self.admin = self.load_rooms_from_json()
Startup ==
    /\ Tick
    /\ ~running
    /\ LET r == load_rooms_from_json(file)
       IN  /\ rooms' = r.rooms
           /\ running' = (r.err = "")
           /\ last' = [op |-> "load", err |-> r.err, pre |-> rooms, src |-> file.kind]
    /\ UNCHANGED <<file>>

Next ==
    \/ AddRoom
    \/ BookRoom
    \/ ReleaseRoom
    \/ RemoveRoom
    \/ Statistics
    \/ on_close
    \/ DamageFile
    \/ Startup

Spec == Init /\ [][Next]_vars

\* ------------------------------------------------- price calculation alone
\* the nightly rates and night counts the price calculation is exercised on
PriceRates == (1..PriceMaxRate) \cup Prices
PriceNights == 0..PriceMaxNights

\* a registry holding one room of each tier, all with the same rate, all unbooked
\* (nights = 0) or all booked for the same number of nights
PriceRegistry(rate, nights) ==
    LET r1 == Admin_add_room(<<>>, "Standard", "101", rate, <<>>).rooms
        r2 == Admin_add_room(r1, "Deluxe", "102", rate, <<>>).rooms
        r3 == Admin_add_room(r2, "Suite", "103", rate, <<>>).rooms
    IN  IF nights = 0 THEN r3
        ELSE [i \in 1..3 |-> book_room(r3[i], nights, "Alice", 1).room]

PriceInit ==
    /\ \E rate \in PriceRates, nights \in PriceNights : rooms = PriceRegistry(rate, nights)
    /\ file = [kind |-> "absent"]
    /\ running = TRUE
    /\ now = 2
    /\ last = [op |-> "load", err |-> "", pre |-> <<>>, src |-> "absent"]

\* room.calculate_price() on the i-th room
CalculatePrice ==
    /\ Tick
    /\ running
    /\ \E i \in 1..Len(rooms) :
          last' = [op |-> "calculate_price", pre |-> rooms, idx |-> i,
                   ret |-> calculate_price(rooms[i])]
    /\ UNCHANGED <<rooms, file, running>>

PriceNext == CalculatePrice

SpecPrice == PriceInit /\ [][PriceNext]_vars

\* ------------------------------------------------ room numbers and lookup
\* room numbers the add-room form can store (any non-empty text), and the
\* numbers a caller can pass: those texts or a Python integer
StoredNumbers == {"101", "0101", "A1"}
CallerNumbers == StoredNumbers \cup {"int 101"}

\* admin.add_room('Standard', room_number, price) with any storable number
AddNumberedRoom ==
    /\ Tick
    /\ running
    /\ Len(rooms) < MaxRooms
    /\ \E room_number \in StoredNumbers, price \in Prices :
          LET r == Admin_add_room(rooms, "Standard", room_number, price, <<>>)
          IN  /\ rooms' = r.rooms
              /\ last' = [op |-> "add_room", ret |-> r.ret, pre |-> rooms,
                          room_type |-> "Standard", room_number |-> room_number,
                          price |-> price, extras |-> <<>>]
    /\ UNCHANGED <<file, running>>

\* admin.remove_room(room_number) with any number a caller can pass
RemoveNumberedRoom ==
    /\ Tick
    /\ running
    /\ \E room_number \in CallerNumbers :
          /\ rooms' = Admin_remove_room(rooms, room_number)
          /\ last' = [op |-> "remove_room", pre |-> rooms, room_number |-> room_number]
    /\ UNCHANGED <<file, running>>

\* admin.get_room_by_number(room_number)
GetRoomByNumber ==
    /\ Tick
    /\ running
    /\ \E room_number \in CallerNumbers :
          last' = [op |-> "get_room_by_number", pre |-> rooms, room_number |-> room_number,
                   ret |-> get_room_by_number(rooms, room_number)]
    /\ UNCHANGED <<rooms, file, running>>

LookupNext ==
    \/ AddNumberedRoom
    \/ RemoveNumberedRoom
    \/ GetRoomByNumber

SpecLookup == Init /\ [][LookupNext]_vars

\* ------------------------------------------------------ forms and checkout
\* float(x) for the texts typed into the price field
PyFloat(x) ==
    CASE x = "100000" -> [ok |-> TRUE, val |-> 100000]
      [] x = "0" -> [ok |-> TRUE, val |-> 0]
      [] x = "-1" -> [ok |-> TRUE, val |-> 0 - 1]
      [] OTHER -> [ok |-> FALSE, val |-> 0]

\* str.strip() for the texts typed into the booking form
Strip(x) == IF x \in {"", " ", "  "} THEN "" ELSE x

\* ModernHotelBookingApp.add_room: the add-room form; a ValueError raised by
\* float() or by the field check is caught and shown
form_add_room(rs, room_number, price_text, room_type, additional_amenities) ==
    IF ~PyFloat(price_text).ok
    THEN [rooms |-> rs, outcome |-> "ValueError"]
    ELSE LET price == PyFloat(price_text).val
         IN  IF ~(room_number # "" /\ price > 0 /\ room_type # "")
             THEN [rooms |-> rs, outcome |-> "ValueError"]
             ELSE LET r == Admin_add_room(rs, room_type, room_number, price, additional_amenities)
                  IN  IF r.ret THEN [rooms |-> r.rooms, outcome |-> "added"]
                               ELSE [rooms |-> r.rooms, outcome |-> "invalid room type"]

\* confirm_booking without the nights > 0 test
confirm_booking_AnyNights(room, name, email, phone, nights_text, t) ==
    LET guest_name == Strip(name)
    IN  IF ~PyInt(nights_text).ok
        THEN [room |-> room, outcome |-> "ValueError", booked |-> FALSE]
        ELSE IF ~(guest_name # "" /\ Strip(email) # "" /\ Strip(phone) # "")
             THEN [room |-> room, outcome |-> "ValueError", booked |-> FALSE]
             ELSE LET r == book_room(room, PyInt(nights_text).val, guest_name, t)
                  IN  [room |-> r.room,
                       outcome |-> IF r.ret THEN "invoice" ELSE "no longer available",
                       booked |-> TRUE]

\* show_booking_form.confirm_booking on the room the form was opened for;
\* booked tells whether room.book_room was called
confirm_booking(room, name, email, phone, nights_text, t) ==
    LET guest_name == Strip(name)
    IN  IF ~PyInt(nights_text).ok
        THEN [room |-> room, outcome |-> "ValueError", booked |-> FALSE]
        ELSE LET nights == PyInt(nights_text).val
             IN  IF ~(guest_name # "" /\ Strip(email) # "" /\ Strip(phone) # "" /\ nights > 0)
                 THEN [room |-> room, outcome |-> "ValueError", booked |-> FALSE]
                 ELSE LET r == book_room(room, nights, guest_name, t)
                      IN  [room |-> r.room,
                           outcome |-> IF r.ret THEN "invoice" ELSE "no longer available",
                           booked |-> TRUE]

\* what tree.item(selected_item)['values'][0] yields for a stored room number:
\* Tk hands a numeral back as an integer
TreeValue(x) ==
    CASE x \in {"101", "0101"} -> "int 101"
      [] x = "102" -> "int 102"
      [] OTHER -> x

\* generate_checkout_receipt: what the receipt shows of the room it is given
\* (total_cost and additional_charges in hundredths)
generate_checkout_receipt(room, checkout_time, total_cost) ==
    [room_number |-> room.room_number,
     checkout_time |-> checkout_time,
     room_type |-> room.cls,
     guest_name |-> room.guest_name,
     checkin_time |-> room.checkin_time,
     nights |-> room.nights,
     price |-> room.price,
     base_price |-> room.price * room.nights,
     additional_charges |-> total_cost - room.price * room.nights * 100,
     total_cost |-> total_cost]

\* what process_checkout returns when it ends before the bill is computed
CheckoutEnds(rs, outcome) ==
    [rooms |-> rs, outcome |-> outcome, idx |-> 0, total_cost |-> 0, steps |-> <<>>]

\* process_checkout with the room released before the receipt is generated
process_checkout_ReleaseFirst(rs, selected, confirm, t) ==
    IF selected = 0 THEN CheckoutEnds(rs, "no selection")
    ELSE LET found == get_room_by_number(rs, TreeValue(rs[selected].room_number))
         IN  IF found.kind = "ValueError" THEN CheckoutEnds(rs, "ValueError")
             ELSE IF found.kind = "none" THEN CheckoutEnds(rs, "not found")
             ELSE LET room == rs[found.idx]
                      total_cost == calculate_price(room)
                      released == release_room(room)
                  IN  IF room.checkin_time = NoTime
                      THEN [rooms |-> rs, outcome |-> "TypeError", idx |-> found.idx,
                            total_cost |-> total_cost,
                            steps |-> <<[call |-> "calculate_price", room |-> room]>>]
                      ELSE IF ~confirm
                           THEN [rooms |-> rs, outcome |-> "declined", idx |-> found.idx,
                                 total_cost |-> total_cost,
                                 steps |-> <<[call |-> "calculate_price", room |-> room]>>]
                           ELSE [rooms |-> [rs EXCEPT ![found.idx] = released],
                                 outcome |-> "checked out", idx |-> found.idx,
                                 total_cost |-> total_cost,
                                 steps |-> <<[call |-> "calculate_price", room |-> room],
                                             [call |-> "release_room", room |-> room],
                                             [call |-> "generate_checkout_receipt",
                                              room |-> released,
                                              receipt |-> generate_checkout_receipt(released, t, total_cost)]>>]

\* show_customer_checkout.process_checkout: selected is the registry index of
\* the room shown in the selected row (0: no row selected), confirm the answer
\* to the confirmation dialog; steps lists the calls made on the room, in
\* order, each with the room as it was when the call was made
process_checkout(rs, selected, confirm, t) ==
    IF selected = 0 THEN CheckoutEnds(rs, "no selection")
    ELSE LET found == get_room_by_number(rs, TreeValue(rs[selected].room_number))
         IN  IF found.kind = "ValueError" THEN CheckoutEnds(rs, "ValueError")
             ELSE IF found.kind = "none" THEN CheckoutEnds(rs, "not found")
             ELSE LET room == rs[found.idx]
                      total_cost == calculate_price(room)
                  IN  IF room.checkin_time = NoTime
                      THEN [rooms |-> rs, outcome |-> "TypeError", idx |-> found.idx,
                            total_cost |-> total_cost,
                            steps |-> <<[call |-> "calculate_price", room |-> room]>>]
                      ELSE IF ~confirm
                           THEN [rooms |-> rs, outcome |-> "declined", idx |-> found.idx,
                                 total_cost |-> total_cost,
                                 steps |-> <<[call |-> "calculate_price", room |-> room]>>]
                           ELSE [rooms |-> [rs EXCEPT ![found.idx] = release_room(room)],
                                 outcome |-> "checked out", idx |-> found.idx,
                                 total_cost |-> total_cost,
                                 steps |-> <<[call |-> "calculate_price", room |-> room],
                                             [call |-> "generate_checkout_receipt",
                                              room |-> room,
                                              receipt |-> generate_checkout_receipt(room, t, total_cost)],
                                             [call |-> "release_room", room |-> room]>>]

\* what the admin submits in the add-room form: room number, price text, tier
\* (the combobox accepts any text) and the extra amenities
AddForms ==
    {[room_number |-> n, price |-> "100000", room_type |-> ty, extras |-> <<>>] :
        n \in RoomNumbers, ty \in {"Standard", "Suite"}}
    \cup {[room_number |-> "", price |-> "100000", room_type |-> "Standard", extras |-> <<>>],
          [room_number |-> "101", price |-> "abc", room_type |-> "Standard", extras |-> <<>>],
          [room_number |-> "101", price |-> "0", room_type |-> "Suite", extras |-> <<>>],
          [room_number |-> "101", price |-> "-1", room_type |-> "Standard", extras |-> <<>>],
          [room_number |-> "101", price |-> "100000", room_type |-> "Villa", extras |-> <<>>]}

\* what the customer submits in the booking form
BookingForms ==
    {[name |-> "Alice", email |-> "a@cg.id", phone |-> "0812", nights |-> n] : n \in {"1", "2"}}
    \cup {[name |-> " ", email |-> "a@cg.id", phone |-> "0812", nights |-> "1"],
          [name |-> "Alice", email |-> "", phone |-> "0812", nights |-> "1"],
          [name |-> "Alice", email |-> "a@cg.id", phone |-> "", nights |-> "2"],
          [name |-> "Alice", email |-> "a@cg.id", phone |-> "0812", nights |-> "abc"],
          [name |-> "Alice", email |-> "a@cg.id", phone |-> "0812", nights |-> "0"],
          [name |-> "Alice", email |-> "a@cg.id", phone |-> "0812", nights |-> "-1"]}

\* the admin presses "Tambahkan Kamar"
FormAddRoom ==
    /\ Tick
    /\ running
    /\ \E f \in AddForms :
          LET r == form_add_room(rooms, f.room_number, f.price, f.room_type, f.extras)
          IN  /\ Len(r.rooms) <= MaxRooms
              /\ rooms' = r.rooms
              /\ last' = [op |-> "form_add_room", pre |-> rooms, form |-> f,
                          outcome |-> r.outcome]
    /\ UNCHANGED <<file, running>>

\* the customer presses "Confirm Booking" in the booking form of the i-th room
ConfirmBooking ==
    /\ Tick
    /\ running
    /\ \E i \in 1..Len(rooms), b \in BookingForms :
          LET r == confirm_booking(rooms[i], b.name, b.email, b.phone, b.nights, now)
          IN  /\ rooms' = [rooms EXCEPT ![i] = r.room]
              /\ last' = [op |-> "confirm_booking", pre |-> rooms, idx |-> i, form |-> b,
                          outcome |-> r.outcome, booked |-> r.booked, t |-> now]
    /\ UNCHANGED <<file, running>>

\* the rows of the checkout list: the occupied rooms
CheckoutRows == {i \in 1..Len(rooms) : ~rooms[i].is_available}

\* the customer presses "Process Checkout" with no row or one row selected and
\* answers the confirmation dialog
ProcessCheckout ==
    /\ Tick
    /\ running
    /\ \E selected \in {0} \cup CheckoutRows, confirm \in BOOLEAN :
          LET r == process_checkout(rooms, selected, confirm, now)
          IN  /\ rooms' = r.rooms
              /\ last' = [op |-> "process_checkout", pre |-> rooms, selected |-> selected,
                          confirm |-> confirm, outcome |-> r.outcome, idx |-> r.idx,
                          total_cost |-> r.total_cost, steps |-> r.steps, t |-> now]
    /\ UNCHANGED <<file, running>>

DeskNext ==
    \/ FormAddRoom
    \/ ConfirmBooking
    \/ ProcessCheckout

SpecDesk == Init /\ [][DeskNext]_vars

\* ------------------------------------------------- book / release cycles
\* one room, just added; the history also keeps the room as it was created and
\* the number of completed book/release cycles
CycleInit ==
    /\ \E room_type \in {"Standard", "Deluxe", "Suite"}, room_number \in RoomNumbers,
          price \in Prices, extras \in ExtraAmenities :
          LET r == Admin_add_room(<<>>, room_type, room_number, price, extras)
          IN  /\ rooms = r.rooms
              /\ last = [op |-> "add_room", ret |-> r.ret, pre |-> <<>>,
                         first |-> r.rooms[1], cycles |-> 0]
    /\ file = [kind |-> "absent"]
    /\ running = TRUE
    /\ now = 2

\* room.book_room(nights, guest_name) on the room
CycleBook ==
    /\ Tick
    /\ running
    /\ \E nights \in 1..MaxNights, guest_name \in Guests :
          LET r == book_room(rooms[1], nights, guest_name, now)
          IN  /\ rooms' = [rooms EXCEPT ![1] = r.room]
              /\ last' = [op |-> "book_room", ret |-> r.ret, pre |-> rooms, idx |-> 1,
                          nights |-> nights, guest_name |-> guest_name, t |-> now,
                          first |-> last.first, cycles |-> last.cycles]
    /\ UNCHANGED <<file, running>>

\* room.release_room() on the room; releasing an occupied room completes a cycle
CycleRelease ==
    /\ Tick
    /\ running
    /\ rooms' = [rooms EXCEPT ![1] = release_room(rooms[1])]
    /\ last' = [op |-> "release_room", pre |-> rooms, idx |-> 1,
                first |-> last.first,
                cycles |-> IF rooms[1].is_available THEN last.cycles ELSE last.cycles + 1]
    /\ UNCHANGED <<file, running>>

CycleNext ==
    \/ CycleBook
    \/ CycleRelease

SpecCycle == CycleInit /\ [][CycleNext]_vars

\* ================================================================= claims
\* the rooms other than the i-th are the same before and after the last call
OthersUnchanged(i) ==
    /\ Len(rooms) = Len(last.pre)
    /\ \A j \in 1..Len(rooms) : j # i => rooms[j] = last.pre[j]

\* C1: in every reachable state every room is either available with check-in
\* time null, nights 0 and guest name empty, or occupied with check-in time
\* set, nights > 0 and guest name non-empty.
Claim_C1_OccupancyInvariant ==
    \A i \in 1..Len(rooms) :
        /\ rooms[i].is_available =>
              /\ rooms[i].checkin_time = NoTime
              /\ rooms[i].nights = 0
              /\ rooms[i].guest_name = ""
        /\ ~rooms[i].is_available =>
              /\ rooms[i].checkin_time # NoTime
              /\ rooms[i].nights > 0
              /\ rooms[i].guest_name # ""

\* the registry was saved by on_close and has just been loaded from that very file
LoadedWhatWasSaved ==
    /\ last.op = "load"
    /\ file = [kind |-> "rooms", data |-> Admin_to_dict(last.pre)]

\* C2: round trip: after save followed by load the registry holds the same
\* rooms in the same order, every field identical (check-in time to the second).
Claim_C2_RoundTrip ==
    LoadedWhatWasSaved =>
        /\ last.err = ""
        /\ Len(rooms) = Len(last.pre)
        /\ \A i \in 1..Len(last.pre) :
              /\ rooms[i].room_number = last.pre[i].room_number
              /\ rooms[i].cls = last.pre[i].cls
              /\ rooms[i].price = last.pre[i].price
              /\ rooms[i].amenities = last.pre[i].amenities
              /\ rooms[i].max_occupancy = last.pre[i].max_occupancy
              /\ rooms[i].is_available = last.pre[i].is_available
              /\ (rooms[i].checkin_time = NoTime) = (last.pre[i].checkin_time = NoTime)
              /\ rooms[i].checkin_time # NoTime =>
                    rooms[i].checkin_time \div TicksPerSecond
                        = last.pre[i].checkin_time \div TicksPerSecond
              /\ rooms[i].nights = last.pre[i].nights
              /\ rooms[i].guest_name = last.pre[i].guest_name

\* the last call was book_room on a room that was available
BookedAvailable ==
    /\ last.op = "book_room"
    /\ last.pre[last.idx].is_available

\* C3: book_room on an available room returns true, marks the room occupied
\* since the current time with the given nights and guest name, keeps number,
\* rate, tier and max occupancy, and keeps the amenity list, except that a
\* Suite gets 'Welcome Champagne' and 'Fruit Basket' appended at the end.
Thm_C3_BookAvailable ==
    BookedAvailable =>
        LET before == last.pre[last.idx]
            after == rooms[last.idx]
        IN  /\ last.ret = TRUE
            /\ after.is_available = FALSE
            /\ after.checkin_time = last.t
            /\ after.nights = last.nights
            /\ after.guest_name = last.guest_name
            /\ after.price = before.price
            /\ after.cls = before.cls
            /\ after.room_number = before.room_number
            /\ after.max_occupancy = before.max_occupancy
            /\ before.cls \in {"StandardRoom", "DeluxeRoom"} => after.amenities = before.amenities
            /\ before.cls = "SuiteRoom" =>
                  after.amenities = before.amenities \o <<"Welcome Champagne", "Fruit Basket">>
            /\ OthersUnchanged(last.idx)

Wit_C3_SuiteBooked ==
    /\ BookedAvailable
    /\ last.pre[last.idx].cls = "SuiteRoom"
    /\ last.ret = TRUE

\* the last call was book_room on a room that was occupied
BookedOccupied ==
    /\ last.op = "book_room"
    /\ ~last.pre[last.idx].is_available

\* C4: book_room on an occupied room returns false and changes no field of
\* the room, whatever its tier, and doing it again gives the same.
Thm_C4_BookOccupied ==
    BookedOccupied =>
        /\ last.ret = FALSE
        /\ rooms = last.pre
        /\ \A nights \in 1..MaxNights, guest_name \in Guests :
              /\ book_room(rooms[last.idx], nights, guest_name, now).ret = FALSE
              /\ book_room(rooms[last.idx], nights, guest_name, now).room = rooms[last.idx]

Wit_C4_SuiteRefused ==
    /\ BookedOccupied
    /\ rooms[last.idx].cls = "SuiteRoom"
    /\ last.ret = FALSE

\* C5: release_room always leaves the room available with check-in time null,
\* nights 0 and guest name empty, keeps number, rate, tier, max occupancy and
\* amenities, changes nothing on an available room, and is idempotent.
Thm_C5_Release ==
    last.op = "release_room" =>
        LET before == last.pre[last.idx]
            after == rooms[last.idx]
        IN  /\ after.is_available = TRUE
            /\ after.checkin_time = NoTime
            /\ after.nights = 0
            /\ after.guest_name = ""
            /\ after.room_number = before.room_number
            /\ after.price = before.price
            /\ after.cls = before.cls
            /\ after.max_occupancy = before.max_occupancy
            /\ after.amenities = before.amenities
            /\ OthersUnchanged(last.idx)
            /\ before.is_available => rooms = last.pre
            /\ release_room(after) = after

Wit_C5_ReleasedOccupied ==
    /\ last.op = "release_room"
    /\ ~last.pre[last.idx].is_available
    /\ last.pre[last.idx].guest_name # ""
    /\ rooms[last.idx].is_available

AllKeys == RequiredKeys \cup {"amenities", "max_occupancy", "guest_name"}

\* rooms.json is absent, is not JSON, or is JSON but not an array of complete room records
AbsentOrMalformed(f) ==
    \/ f.kind \in {"absent", "text", "number"}
    \/ /\ f.kind = "rooms"
       /\ \E i \in 1..Len(f.data) : DOMAIN f.data[i] # AllKeys

\* C6: loading when rooms.json is absent or malformed returns a registry with
\* zero rooms and signals no error.
Claim_C6_LenientLoad ==
    (last.op = "load" /\ AbsentOrMalformed(file)) =>
        /\ last.err = ""
        /\ running
        /\ rooms = <<>>

\* the last call was calculate_price
Priced == last.op = "calculate_price"

\* C7: calculate_price is rate x nights for Standard, that x 1.10 for Deluxe and
\* that x 1.15 + 500000 for Suite (amounts below in hundredths); rate 100000 for
\* 2 nights gives 200000 for Standard and 730000 for Suite.
Thm_C7_PriceFormula ==
    Priced =>
        LET room == last.pre[last.idx]
            base == room.price * room.nights
        IN  /\ room.cls = "StandardRoom" => last.ret = base * 100
            /\ room.cls = "DeluxeRoom" => last.ret = base * 110
            /\ room.cls = "SuiteRoom" => last.ret = base * 115 + 500000 * 100
            /\ (room.price = 100000 /\ room.nights = 2) =>
                  /\ room.cls = "StandardRoom" => last.ret = 200000 * 100
                  /\ room.cls = "SuiteRoom" => last.ret = 730000 * 100
            /\ rooms = last.pre

Wit_C7_SuiteExample ==
    /\ Priced
    /\ last.pre[last.idx].cls = "SuiteRoom"
    /\ last.pre[last.idx].price = 100000
    /\ last.pre[last.idx].nights = 2
    /\ last.ret = 730000 * 100

\* the registry holds a Standard, a Deluxe and a Suite room with one rate and one night count
SameRateAndNights ==
    /\ Len(rooms) = 3
    /\ rooms[1].cls = "StandardRoom" /\ rooms[2].cls = "DeluxeRoom" /\ rooms[3].cls = "SuiteRoom"
    /\ rooms[1].price = rooms[2].price /\ rooms[2].price = rooms[3].price
    /\ rooms[1].nights = rooms[2].nights /\ rooms[2].nights = rooms[3].nights

SuiteOverDeluxeOverStandard ==
    /\ calculate_price(rooms[3]) > calculate_price(rooms[2])
    /\ calculate_price(rooms[2]) > calculate_price(rooms[1])

\* C8 as stated: for every rate and every night count, Suite price > Deluxe
\* price > Standard price at identical rate and nights.
Claim_C8_TierOrder ==
    (Priced /\ SameRateAndNights) => SuiteOverDeluxeOverStandard

\* C8 as amended: the strict order holds for every rate > 0 and night count > 0.
Thm_C8_TierOrderPositive ==
    (Priced /\ SameRateAndNights /\ rooms[1].price > 0 /\ rooms[1].nights > 0) =>
        SuiteOverDeluxeOverStandard

Wit_C8_PositiveStay ==
    /\ Priced
    /\ SameRateAndNights
    /\ rooms[1].price > 0
    /\ rooms[1].nights > 0
    /\ last.idx = 2

\* price of the room at another rate / for another night count
PriceAtRate(room, rate) == calculate_price([room EXCEPT !.price = rate])
PriceForNights(room, nights) == calculate_price([room EXCEPT !.nights = nights])

\* C9 as stated: for each tier, with nights fixed a strictly larger rate gives
\* a strictly larger price, and with the rate fixed strictly more nights give
\* a strictly larger price.
Claim_C9_Monotonic ==
    Priced =>
        LET room == last.pre[last.idx]
        IN  /\ \A rate \in PriceRates :
                  rate > room.price => PriceAtRate(room, rate) > last.ret
            /\ \A nights \in PriceNights :
                  nights > room.nights => PriceForNights(room, nights) > last.ret

\* C9 as amended: the price grows strictly with the rate when nights > 0, and
\* strictly with the nights when the rate is > 0.
Thm_C9_MonotonicPositive ==
    Priced =>
        LET room == last.pre[last.idx]
        IN  /\ room.nights > 0 =>
                  \A rate \in PriceRates :
                      rate > room.price => PriceAtRate(room, rate) > last.ret
            /\ room.price > 0 =>
                  \A nights \in PriceNights :
                      nights > room.nights => PriceForNights(room, nights) > last.ret

Wit_C9_RoomForGrowth ==
    /\ Priced
    /\ last.pre[last.idx].cls = "DeluxeRoom"
    /\ last.pre[last.idx].nights = 1
    /\ last.pre[last.idx].price = 1
    /\ last.ret = 110

RECURSIVE SumOver(_, _)
\* the sum of f[i] over the indices i in S
SumOver(f, S) ==
    IF S = {} THEN 0
    ELSE LET i == CHOOSE j \in S : TRUE IN f[i] + SumOver(f, S \ {i})

OccupiedIndices(rs) == {i \in 1..Len(rs) : ~rs[i].is_available}

\* C10: get_booking_statistics returns the room count, the occupied count, their
\* difference, occupied/total x 100 (0 when empty), and as revenue the sum of
\* rate x nights over the occupied rooms, which leaves out the Deluxe and Suite
\* surcharges of calculate_price; it changes nothing.
Thm_C10_Statistics ==
    last.op = "get_booking_statistics" =>
        LET st == last.ret
            occ == OccupiedIndices(last.pre)
            billed == SumOver([i \in 1..Len(last.pre) |-> calculate_price(last.pre[i])], occ)
        IN  /\ st.total_rooms = Len(last.pre)
            /\ st.occupied_rooms = Cardinality(occ)
            /\ st.available_rooms = st.total_rooms - st.occupied_rooms
            /\ st.occupancy_rate.den > 0
            /\ st.total_rooms = 0 => st.occupancy_rate.num = 0
            /\ st.total_rooms > 0 =>
                  st.occupancy_rate.num * st.total_rooms
                      = st.occupied_rooms * 100 * st.occupancy_rate.den
            /\ st.total_revenue
                  = SumOver([i \in 1..Len(last.pre) |-> last.pre[i].price * last.pre[i].nights], occ)
            /\ st.total_rooms = 0 => st.total_revenue = 0
            /\ st.total_revenue * 100 <= billed
            /\ (\E i \in occ : last.pre[i].cls \in {"DeluxeRoom", "SuiteRoom"}) =>
                  st.total_revenue * 100 < billed
            /\ rooms = last.pre

Wit_C10_MixedRegistry ==
    /\ last.op = "get_booking_statistics"
    /\ Len(last.pre) = 2
    /\ \E i, j \in 1..2 :
          /\ ~last.pre[i].is_available /\ last.pre[i].cls = "SuiteRoom"
          /\ last.pre[j].is_available
    /\ last.ret.occupied_rooms = 1
    /\ last.ret.occupancy_rate.num = 100
    /\ last.ret.occupancy_rate.den = 2

\* the last call was Admin.add_room
Added == last.op = "add_room"

\* the seed list and the max occupancy the tier of an accepted add_room fixes
SeedOf(room_type) ==
    CASE room_type = "Standard" -> StandardSeed
      [] room_type = "Deluxe" -> DeluxeSeed
      [] room_type = "Suite" -> SuiteSeed

OccupancyOf(room_type) ==
    CASE room_type = "Standard" -> 2
      [] room_type = "Deluxe" -> 3
      [] room_type = "Suite" -> 4

\* the max occupancy of a room of the tier is the tier's, whatever value is passed
OccupancyFixedByTier(room_type) ==
    \A passed \in 1..5 :
        Construct(room_classes(room_type), "101", 100000, <<>>, passed,
                  TRUE, NoTime, 0, "").max_occupancy = OccupancyOf(room_type)

\* C13 as stated: a room created by add_room has the tier's max occupancy and
\* as amenities the tier's seed list followed by the admin's extras.
Claim_C13_SeedThenExtras ==
    (Added /\ last.ret) =>
        LET room == rooms[Len(rooms)]
        IN  /\ room.max_occupancy = OccupancyOf(last.room_type)
            /\ OccupancyFixedByTier(last.room_type)
            /\ room.amenities = SeedOf(last.room_type) \o last.extras

\* C13 as amended: the amenities are the admin's extras, in order, followed by
\* the tier's seed list; no seed item is replaced or dropped.
Thm_C13_ExtrasThenSeed ==
    (Added /\ last.ret) =>
        LET room == rooms[Len(rooms)]
        IN  /\ room.max_occupancy = OccupancyOf(last.room_type)
            /\ OccupancyFixedByTier(last.room_type)
            /\ room.amenities = last.extras \o SeedOf(last.room_type)

Wit_C13_SuiteWithExtras ==
    /\ Added
    /\ last.ret
    /\ last.room_type = "Suite"
    /\ last.extras # <<>>
    /\ rooms[Len(rooms)].max_occupancy = 4

\* the indices of rs whose room is not numbered n, and the k-th of them
KeptIndices(rs, n) == {i \in 1..Len(rs) : rs[i].room_number # n}
KthKept(rs, n, k) ==
    CHOOSE i \in KeptIndices(rs, n) : Cardinality({j \in KeptIndices(rs, n) : j <= i}) = k

\* C14: add_room with a known tier returns True and appends one available room,
\* leaving the others and their order alone, duplicate number or not; with
\* another tier name it returns False and changes nothing.  remove_room(n)
\* keeps, in order and unmodified, exactly the rooms not numbered n.
Thm_C14_AddRemoveFrame ==
    /\ (Added /\ last.room_type \in {"Standard", "Deluxe", "Suite"}) =>
          /\ last.ret = TRUE
          /\ Len(rooms) = Len(last.pre) + 1
          /\ SubSeq(rooms, 1, Len(last.pre)) = last.pre
          /\ rooms[Len(rooms)].is_available
          /\ rooms[Len(rooms)].room_number = last.room_number
          /\ rooms[Len(rooms)].price = last.price
          /\ rooms[Len(rooms)].cls = room_classes(last.room_type)
    /\ (Added /\ last.room_type \notin {"Standard", "Deluxe", "Suite"}) =>
          /\ last.ret = FALSE
          /\ rooms = last.pre
    /\ last.op = "remove_room" =>
          /\ Len(rooms) = Cardinality(KeptIndices(last.pre, last.room_number))
          /\ \A k \in 1..Len(rooms) : rooms[k] = last.pre[KthKept(last.pre, last.room_number, k)]
          /\ \A k \in 1..Len(rooms) : rooms[k].room_number # last.room_number
          /\ KeptIndices(last.pre, last.room_number) = 1..Len(last.pre) => rooms = last.pre

Wit_C14_RemovedDuplicates ==
    /\ last.op = "remove_room"
    /\ Len(last.pre) = 2
    /\ last.pre[1].room_number = last.room_number
    /\ last.pre[2].room_number = last.room_number
    /\ rooms = <<>>

\* the stored number a matches the number n asked for: equal as they stand, or
\* equal as integers
Matches(a, n) ==
    \/ a = n
    \/ PyInt(a).ok /\ PyInt(n).ok /\ PyInt(a).val = PyInt(n).val

MatchingIndices(rs, n) == {i \in 1..Len(rs) : Matches(rs[i].room_number, n)}

\* C11: get_room_by_number(n) returns the first room in registry order whose
\* number matches n and None when none matches; it fails in no other way and
\* leaves the registry alone.
Claim_C11_FirstMatchOrNone ==
    last.op = "get_room_by_number" =>
        LET hits == MatchingIndices(last.pre, last.room_number)
        IN  /\ last.ret.kind \in {"found", "none"}
            /\ hits = {} => last.ret.kind = "none"
            /\ hits # {} =>
                  /\ last.ret.kind = "found"
                  /\ last.ret.idx \in hits
                  /\ \A i \in hits : last.ret.idx <= i
            /\ rooms = last.pre

\* C17: after remove_room(n), get_room_by_number(n) returns no room: whatever
\* the lookup can return for n, the removal has removed.
Claim_C17_RemoveThenLookup ==
    last.op = "remove_room" =>
        get_room_by_number(rooms, last.room_number).kind # "found"

RECURSIVE Welcomes(_)
\* the bonus amenities of k successful Suite bookings
Welcomes(k) ==
    IF k = 0 THEN <<>> ELSE Welcomes(k - 1) \o <<"Welcome Champagne", "Fruit Basket">>

\* the successful bookings of the room so far: the completed cycles and, when
\* the room is occupied, the booking under way
BookingsSoFar == last.cycles + (IF rooms[1].is_available THEN 0 ELSE 1)

\* C12: book_room followed by release_room leaves the room available with
\* nights 0, guest name empty and check-in null, and keeps number, rate and
\* tier; Standard and Deluxe keep their amenity list, a Suite keeps the two
\* bonus items of every booking: after k cycles its list is the original one
\* plus 2k items, and it is never shorter than before.
Thm_C12_BookReleaseCycles ==
    LET room == rooms[1]
        first == last.first
    IN  /\ room.room_number = first.room_number
        /\ room.price = first.price
        /\ room.cls = first.cls
        /\ room.cls \in {"StandardRoom", "DeluxeRoom"} => room.amenities = first.amenities
        /\ room.cls = "SuiteRoom" =>
              /\ room.amenities = first.amenities \o Welcomes(BookingsSoFar)
              /\ Len(room.amenities) = Len(first.amenities) + 2 * BookingsSoFar
        /\ last.pre # <<>> => Len(room.amenities) >= Len(last.pre[1].amenities)
        /\ last.op = "release_room" =>
              /\ room.is_available = TRUE
              /\ room.nights = 0
              /\ room.guest_name = ""
              /\ room.checkin_time = NoTime

Wit_C12_SuiteTwoCycles ==
    /\ last.op = "release_room"
    /\ last.cycles = 2
    /\ ~last.pre[1].is_available
    /\ rooms[1].cls = "SuiteRoom"
    /\ Len(rooms[1].amenities) = Len(last.first.amenities) + 4

\* the calls of the last checkout, in order
CallsMade == [i \in 1..Len(last.steps) |-> last.steps[i].call]

\* the room the last checkout worked on, as it was before the checkout
CheckedOut == last.pre[last.idx]

\* C15: a confirmed checkout computes the bill with calculate_price and
\* generates the receipt while the room still holds its nights, guest name and
\* check-in time, and calls release_room only after both; a declined checkout
\* never reaches release_room and changes nothing; no step after release_room
\* reads the room.
Thm_C15_BillAndReceiptBeforeRelease ==
    last.op = "process_checkout" =>
        /\ last.outcome = "checked out" =>
              /\ last.confirm
              /\ CallsMade = <<"calculate_price", "generate_checkout_receipt", "release_room">>
              /\ CheckedOut.nights > 0
              /\ CheckedOut.guest_name # ""
              /\ CheckedOut.checkin_time # NoTime
              /\ \A i \in 1..Len(last.steps) :
                    /\ last.steps[i].room.nights = CheckedOut.nights
                    /\ last.steps[i].room.guest_name = CheckedOut.guest_name
                    /\ last.steps[i].room.checkin_time = CheckedOut.checkin_time
              /\ last.total_cost = calculate_price(CheckedOut)
              /\ last.steps[2].receipt.total_cost = last.total_cost
              /\ last.steps[2].receipt.nights = CheckedOut.nights
              /\ last.steps[2].receipt.guest_name = CheckedOut.guest_name
              /\ last.steps[2].receipt.checkin_time = CheckedOut.checkin_time
              /\ rooms[last.idx] = release_room(CheckedOut)
        /\ ~last.confirm =>
              /\ \A i \in 1..Len(last.steps) : last.steps[i].call # "release_room"
              /\ rooms = last.pre
        /\ \A i \in 1..Len(last.steps) :
              last.steps[i].call = "release_room" => i = Len(last.steps)

Wit_C15_SuiteCheckedOut ==
    /\ last.op = "process_checkout"
    /\ last.outcome = "checked out"
    /\ CheckedOut.cls = "SuiteRoom"
    /\ CheckedOut.nights = 2
    /\ last.steps[2].receipt.guest_name = "Alice"
    /\ rooms[last.idx].is_available

\* the texts the claim counts as blank, and as an integer greater than 0 or a
\* number greater than 0
BlankTexts == {"", " ", "  "}
PositiveTexts == {"1", "2", "100000"}

\* a booking form that the claim calls invalid
InvalidBooking(b) ==
    \/ b.name \in BlankTexts
    \/ b.email \in BlankTexts
    \/ b.phone \in BlankTexts
    \/ b.nights \notin PositiveTexts

\* an add-room form that the claim calls invalid
InvalidAdd(f) ==
    \/ f.room_number = ""
    \/ f.price \notin PositiveTexts

\* C16: an invalid booking form never reaches book_room and leaves the room
\* and the registry as they were; an invalid add-room form leaves the registry
\* as it was; every occupied room has nights > 0 and a non-empty guest name.
Thm_C16_ValidationMutatesNothing ==
    /\ (last.op = "confirm_booking" /\ InvalidBooking(last.form)) =>
          /\ last.outcome = "ValueError"
          /\ ~last.booked
          /\ rooms = last.pre
    /\ (last.op = "form_add_room" /\ InvalidAdd(last.form)) =>
          /\ last.outcome = "ValueError"
          /\ rooms = last.pre
    /\ \A i \in 1..Len(rooms) :
          ~rooms[i].is_available => (rooms[i].nights > 0 /\ rooms[i].guest_name # "")

Wit_C16_ZeroNightsRefused ==
    /\ last.op = "confirm_booking"
    /\ last.form.nights = "0"
    /\ last.form.name = "Alice"
    /\ last.pre[last.idx].is_available
    /\ last.outcome = "ValueError"
    /\ \E i \in 1..Len(rooms) : ~rooms[i].is_available

\* C18: a confirmed checkout of an occupied room selected in the checkout list
\* releases exactly that room: the selected room is available with cleared
\* occupancy fields and every other room is unchanged, also when several rooms
\* carry the same number.
Claim_C18_ReleasesSelectedRoom ==
    (/\ last.op = "process_checkout"
     /\ last.selected # 0
     /\ last.outcome = "checked out") =>
        /\ rooms[last.selected].is_available
        /\ rooms[last.selected].nights = 0
        /\ rooms[last.selected].guest_name = ""
        /\ rooms[last.selected].checkin_time = NoTime
        /\ OthersUnchanged(last.selected)

====
